---- MODULE Spec2Model ----
(***************************************************************************)
(* Model of the generic atomic cell Atomic<T> (src/src/lib.rs) and of the   *)
(* width-specialised operation modules (src/src/ops.rs).                    *)
(*                                                                          *)
(* A value of T and a value of a native integer are both bit patterns: a    *)
(* sequence of bytes, least significant byte first, whose length is the     *)
(* size of the type. The cell is one such pattern. The native atomics of    *)
(* core::sync::atomic are sequentially consistent single steps here; an     *)
(* ordering only decides whether the native operation panics.               *)
(***************************************************************************)
EXTENDS Integers, Sequences, FiniteSets, TLC

VARIABLES
    ty,      \* the type T of the cell: [size, align] in bytes, [signed] if an integer
    cell,    \* Atomic::inner, the bytes of the stored T
    last,    \* the most recent completed call of a primitive operation
    wr,      \* the most recent write to the cell: whether a store made it, and the value passed
    fu,      \* fu[t]: the frame of thread t's fetch_update call
    other,   \* under SpecSeq: a second cell of the same type, and the results logged on both
    prog     \* the program holding the cell: the methods it uses, its build and its run

vars == <<ty, cell, last, wr, fu, other, prog>>

----------------------------------------------------------------------------
(* Bounds of the model *)

\* number of threads sharing the cell
NThreads == 2

Threads == 1..NThreads

\* number of fetch_add calls each thread makes under SpecAdd
MaxAdds == 3

\* number of calls made on each of the two cells under SpecSeq
MaxCalls == 3

\* number of fetch_* calls made on the cell under SpecFetch
MaxFetch == 2

\* number of failed exchanges of one fetch_update call under SpecTrace
MaxRetries == 2

\* number of fetch_update calls each thread makes under SpecInc
MaxIncs == 2

----------------------------------------------------------------------------
(* Orderings: core::sync::atomic::Ordering, re-exported at lib.rs:16 *)

Ordering == {"Relaxed", "Release", "Acquire", "AcqRel", "SeqCst"}

\* lib.rs:119-123: load takes SeqCst, Acquire or Relaxed, panics otherwise
LoadOrderOk(order) == order \in {"Relaxed", "Acquire", "SeqCst"}

\* lib.rs:132-136: store takes SeqCst, Release or Relaxed, panics otherwise
StoreOrderOk(order) == order \in {"Relaxed", "Release", "SeqCst"}

\* lib.rs:155,166: the failure ordering can only be SeqCst, Acquire or Relaxed
FailureOrderOk(order) == order \in {"Relaxed", "Acquire", "SeqCst"}

----------------------------------------------------------------------------
(* Bit patterns *)

\* no value (an operation that returns nothing, or that panicked)
NoVal == <<>>

\* the pattern of n bytes holding the number k < 256, least significant first
Small(k, n) == [i \in 1..n |-> IF i = 1 THEN k ELSE 0]

\* the pattern of n bytes with every bit set
AllOnes(n) == [i \in 1..n |-> 255]

\* core::mem::transmute_copy: reads the first n bytes of the source
transmute_copy(src, n) == [i \in 1..n |-> src[i]]

\* the carry out of byte i when adding patterns a and b
RECURSIVE Carry(_, _, _)
Carry(a, b, i) ==
    IF i = 0 THEN 0 ELSE (a[i] + b[i] + Carry(a, b, i - 1)) \div 256

\* native wrapping addition at the width of the patterns
wrapping_add(a, b) ==
    [i \in 1..Len(a) |-> (a[i] + b[i] + Carry(a, b, i - 1)) % 256]

----------------------------------------------------------------------------
(* Width dispatch, lib.rs:42-56 *)

\* align_of of the native integer of a width, as the match guards read it
native_align(w) == w

\* match_size_arm matching on the size alone
match_size_arm_unaligned(size, align) ==
    CASE size = 1 -> "u8" [] size = 2 -> "u16" [] size = 4 -> "u32" [] size = 8 -> "u64"
      [] OTHER -> "unimplemented"

\* match_size_arm taking the widest module that holds the size
match_size_arm_widest(size, align) ==
    IF size \in 1..8 /\ align >= 1 THEN "u64" ELSE "unimplemented"

\* match_size_arm: the operation module for a size and alignment
match_size_arm(size, align) ==
    CASE size = 1 /\ align >= native_align(1) -> "u8"
      [] size = 2 /\ align >= native_align(2) -> "u16"
      [] size = 4 /\ align >= native_align(4) -> "u32"
      [] size = 8 /\ align >= native_align(8) -> "u64"
      [] OTHER -> "unimplemented"

\* size in bytes of the native integer an operation module works on
native_size(m) ==
    CASE m = "u8" -> 1 [] m = "u16" -> 2 [] m = "u32" -> 4 [] m = "u64" -> 8

\* the types the cell is instantiated with: size and alignment
Types == {[size |-> 1, align |-> 1], [size |-> 2, align |-> 2],
          [size |-> 4, align |-> 4], [size |-> 8, align |-> 8]}

\* the integer types fetch_add is implemented for (impl_math_spec), with
\* their signedness
IntTypes == {[size |-> w, align |-> w, signed |-> b] : w \in {1, 2, 4, 8}, b \in BOOLEAN}

\* $ty::max_value() of an integer type
MaxInt(T) == [i \in 1..T.size |-> IF T.signed /\ i = T.size THEN 127 ELSE 255]

\* the module the five operation constants of Atomic<T> resolve to
Module == match_size_arm(ty.size, ty.align)

\* the sample values of T used as arguments and initial values
Vals(n) == {Small(0, n), Small(1, n), AllOnes(n)}

----------------------------------------------------------------------------
(* The native atomics of core::sync::atomic, as ops.rs calls them. Each is  *)
(* one indivisible step on the native integer at the cell's address and     *)
(* yields [panic, mem, ret]: whether the call panicked, the bytes left in   *)
(* memory, and the returned value.                                          *)

Unit == [tag |-> "Unit", val |-> NoVal]
Panicked == [tag |-> "Panic", val |-> NoVal]
Val(v) == [tag |-> "Val", val |-> v]
Ok(v) == [tag |-> "Ok", val |-> v]
Err(v) == [tag |-> "Err", val |-> v]

\* $atomic::load(order)
native_load(mem, order) ==
    IF LoadOrderOk(order)
    THEN [panic |-> FALSE, mem |-> mem, ret |-> Val(mem)]
    ELSE [panic |-> TRUE, mem |-> mem, ret |-> Panicked]

\* $atomic::store(val, order)
native_store(mem, val, order) ==
    IF StoreOrderOk(order)
    THEN [panic |-> FALSE, mem |-> val, ret |-> Unit]
    ELSE [panic |-> TRUE, mem |-> mem, ret |-> Panicked]

\* $atomic::swap(val, order)
native_swap(mem, val, order) ==
    [panic |-> FALSE, mem |-> val, ret |-> Val(mem)]

\* compare_exchange storing new whatever the cell holds
native_compare_exchange_blind(mem, current, new, success, failure) ==
    IF ~FailureOrderOk(failure)
    THEN [panic |-> TRUE, mem |-> mem, ret |-> Panicked]
    ELSE [panic |-> FALSE, mem |-> new, ret |-> Ok(mem)]

\* $atomic::compare_exchange(current, new, success, failure)
native_compare_exchange(mem, current, new, success, failure) ==
    IF ~FailureOrderOk(failure)
    THEN [panic |-> TRUE, mem |-> mem, ret |-> Panicked]
    ELSE IF mem = current
         THEN [panic |-> FALSE, mem |-> new, ret |-> Ok(mem)]
         ELSE [panic |-> FALSE, mem |-> mem, ret |-> Err(mem)]

\* compare_exchange_weak storing new whatever the cell holds
native_compare_exchange_weak_blind(mem, current, new, success, failure, spurious) ==
    IF ~FailureOrderOk(failure)
    THEN [panic |-> TRUE, mem |-> mem, ret |-> Panicked]
    ELSE IF ~spurious
         THEN [panic |-> FALSE, mem |-> new, ret |-> Ok(mem)]
         ELSE [panic |-> FALSE, mem |-> mem, ret |-> Err(mem)]

\* $atomic::compare_exchange_weak(current, new, success, failure); spurious
\* is the hardware's choice to abort an exchange whose comparison matched
native_compare_exchange_weak(mem, current, new, success, failure, spurious) ==
    IF ~FailureOrderOk(failure)
    THEN [panic |-> TRUE, mem |-> mem, ret |-> Panicked]
    ELSE IF mem = current /\ ~spurious
         THEN [panic |-> FALSE, mem |-> new, ret |-> Ok(mem)]
         ELSE [panic |-> FALSE, mem |-> mem, ret |-> Err(mem)]

\* $atomic::fetch_add(val, order)
native_fetch_add(mem, val, order) ==
    [panic |-> FALSE, mem |-> wrapping_add(mem, val), ret |-> Val(mem)]

----------------------------------------------------------------------------
(* The width-specialised operation modules, ops.rs:11-86. dst is the bytes  *)
(* of the T at the cell's address, m the module, n the size of T.           *)

\* the bytes at dst after the native integer over its first bytes became w
Overlay(dst, w) == [i \in 1..Len(dst) |-> IF i <= Len(w) THEN w[i] ELSE dst[i]]

\* a returned native value reinterpreted as T
Back(r, n) == [tag |-> r.tag, val |-> IF r.val = NoVal THEN NoVal ELSE transmute_copy(r.val, n)]

\* map_result reporting every outcome as a success
map_result_ok(val, n) ==
    CASE val.tag \in {"Ok", "Err"} -> Ok(transmute_copy(val.val, n))
      [] OTHER -> val

\* ops::map_result
map_result(val, n) ==
    CASE val.tag = "Ok" -> Ok(transmute_copy(val.val, n))
      [] val.tag = "Err" -> Err(transmute_copy(val.val, n))
      [] OTHER -> val

\* atomic_load running an invalid ordering as Relaxed
atomic_load_downgrade(m, dst, n, order) ==
    LET w == native_size(m)
        r == native_load(transmute_copy(dst, w), IF LoadOrderOk(order) THEN order ELSE "Relaxed")
    IN  [panic |-> r.panic, mem |-> Overlay(dst, r.mem), ret |-> Back(r.ret, n)]

atomic_load(m, dst, n, order) ==
    LET w == native_size(m)
        r == native_load(transmute_copy(dst, w), order)
    IN  [panic |-> r.panic, mem |-> Overlay(dst, r.mem), ret |-> Back(r.ret, n)]

\* atomic_store going through the one-byte atomic whatever the module
atomic_store_narrow(m, dst, n, val, order) ==
    LET w == native_size("u8")
        r == native_store(transmute_copy(dst, w), transmute_copy(val, w), order)
    IN  [panic |-> r.panic, mem |-> Overlay(dst, r.mem), ret |-> r.ret]

atomic_store(m, dst, n, val, order) ==
    LET w == native_size(m)
        r == native_store(transmute_copy(dst, w), transmute_copy(val, w), order)
    IN  [panic |-> r.panic, mem |-> Overlay(dst, r.mem), ret |-> r.ret]

\* atomic_swap returning the value it stored
atomic_swap_new(m, dst, n, val, order) ==
    LET w == native_size(m)
        r == native_swap(transmute_copy(dst, w), transmute_copy(val, w), order)
    IN  [panic |-> r.panic, mem |-> Overlay(dst, r.mem), ret |-> Back(Val(r.mem), n)]

atomic_swap(m, dst, n, val, order) ==
    LET w == native_size(m)
        r == native_swap(transmute_copy(dst, w), transmute_copy(val, w), order)
    IN  [panic |-> r.panic, mem |-> Overlay(dst, r.mem), ret |-> Back(r.ret, n)]

\* atomic_compare_exchange reporting the expected value on failure
atomic_compare_exchange_stale(m, dst, n, current, new, ok, err) ==
    LET w == native_size(m)
        r == native_compare_exchange(transmute_copy(dst, w), transmute_copy(current, w),
                                     transmute_copy(new, w), ok, err)
    IN  [panic |-> r.panic, mem |-> Overlay(dst, r.mem),
         ret |-> IF r.ret.tag = "Err" THEN Err(current) ELSE map_result(r.ret, n)]

atomic_compare_exchange(m, dst, n, current, new, ok, err) ==
    LET w == native_size(m)
        r == native_compare_exchange(transmute_copy(dst, w), transmute_copy(current, w),
                                     transmute_copy(new, w), ok, err)
    IN  [panic |-> r.panic, mem |-> Overlay(dst, r.mem), ret |-> map_result(r.ret, n)]

\* atomic_compare_exchange_weak running an invalid failure ordering as Relaxed
atomic_compare_exchange_weak_downgrade(m, dst, n, current, new, ok, err, spurious) ==
    LET w == native_size(m)
        r == native_compare_exchange_weak(transmute_copy(dst, w), transmute_copy(current, w),
                                          transmute_copy(new, w), ok,
                                          IF FailureOrderOk(err) THEN err ELSE "Relaxed",
                                          spurious)
    IN  [panic |-> r.panic, mem |-> Overlay(dst, r.mem), ret |-> map_result(r.ret, n)]

atomic_compare_exchange_weak(m, dst, n, current, new, ok, err, spurious) ==
    LET w == native_size(m)
        r == native_compare_exchange_weak(transmute_copy(dst, w), transmute_copy(current, w),
                                          transmute_copy(new, w), ok, err, spurious)
    IN  [panic |-> r.panic, mem |-> Overlay(dst, r.mem), ret |-> map_result(r.ret, n)]

----------------------------------------------------------------------------
(* The methods of Atomic<T>, lib.rs:94-194 and 233-269; self is the bytes   *)
(* of the cell the method is called on                                      *)

\* load passing Relaxed whatever ordering it was given
load_relaxed(self, order) == atomic_load(Module, self, ty.size, "Relaxed")

load(self, order) == atomic_load(Module, self, ty.size, order)

store(self, val, order) == atomic_store(Module, self, ty.size, val, order)

swap(self, val, order) == atomic_swap(Module, self, ty.size, val, order)

compare_exchange(self, current, new, success, failure) ==
    atomic_compare_exchange(Module, self, ty.size, current, new, success, failure)

\* compare_exchange_weak passing new and current in each other's place
compare_exchange_weak_swapped(self, current, new, success, failure, spurious) ==
    atomic_compare_exchange_weak(Module, self, ty.size, new, current, success, failure, spurious)

compare_exchange_weak(self, current, new, success, failure, spurious) ==
    atomic_compare_exchange_weak(Module, self, ty.size, current, new, success, failure, spurious)

\* Atomic<$ty>::fetch_add storing its operand, as swap does
fetch_add_swap(self, val, order) ==
    LET r == native_swap(self, val, order)
    IN  [panic |-> r.panic, mem |-> r.mem, ret |-> r.ret]

\* Atomic<$ty>::fetch_add: the cell cast to the native atomic of $ty
fetch_add(self, val, order) ==
    LET r == native_fetch_add(self, val, order)
    IN  [panic |-> r.panic, mem |-> r.mem, ret |-> r.ret]

----------------------------------------------------------------------------
(* State after construction *)

\* the frame of a thread that has not called fetch_update yet
Idle == [pc |-> "idle", cb |-> "-", set_order |-> "-", fetch_order |-> "-",
         prev |-> NoVal, next |-> NoVal, res |-> Unit,
         at |-> NoVal, put |-> NoVal, changed |-> 0, env |-> FALSE, n |-> 0]

NoCall == [op |-> "new", a |-> NoVal, b |-> NoVal, o1 |-> "-", o2 |-> "-",
           before |-> NoVal, ret |-> Unit]

\* the five operations that go through a dispatched function pointer
Methods == {"load", "store", "swap", "compare_exchange", "compare_exchange_weak"}

\* a program that was built and whose cell is in use: uses are the methods
\* it calls besides new, debug says whether debug assertions are compiled
\* in, ran is the module and function its latest dispatched call went to
Linked == [phase |-> "live", uses |-> Methods, debug |-> TRUE, ran |-> <<>>]

\* Atomic::new(value) for a type the dispatch accepts
New(T, value) ==
    /\ match_size_arm(T.size, T.align) # "unimplemented"
    /\ prog = Linked
    /\ ty = T
    /\ cell = value
    /\ last = NoCall
    /\ wr = [store |-> FALSE, arg |-> value]
    /\ fu = [t \in Threads |-> Idle]

\* a second cell holding mem, and nothing logged
Second(mem) == [mem |-> mem, logA |-> <<>>, logB |-> <<>>]

\* one cell and no second one
Init ==
    /\ \E T \in Types : \E value \in Vals(T.size) : New(T, value)
    /\ other = Second(NoVal)

----------------------------------------------------------------------------
(* Calls of the primitive operations. Each call is one indivisible step, so *)
(* the calling thread is not part of the state: consecutive calls are calls *)
(* by any threads, in the order the cell sees them. A call that panics      *)
(* unwinds its caller and leaves the cell to the others.                    *)

\* the record of a call with outcome r and of the write it made, if any
Record(op, a, b, o1, o2, r, wrote) ==
    /\ cell' = r.mem
    /\ last' = [op |-> op, a |-> a, b |-> b, o1 |-> o1, o2 |-> o2,
               before |-> cell, ret |-> r.ret]
    /\ wr' = IF wrote THEN [store |-> op = "store", arg |-> IF b = NoVal THEN a ELSE b] ELSE wr

Load(order) ==
    /\ Record("load", NoVal, NoVal, order, "-", load(cell, order), FALSE)
    /\ UNCHANGED <<prog, ty, other, fu>>

Store(val, order) ==
    /\ LET r == store(cell, val, order)
       IN  Record("store", val, NoVal, order, "-", r, ~r.panic)
    /\ UNCHANGED <<prog, ty, other, fu>>

Swap(val, order) ==
    /\ LET r == swap(cell, val, order)
       IN  Record("swap", val, NoVal, order, "-", r, ~r.panic)
    /\ UNCHANGED <<prog, ty, other, fu>>

CompareExchange(current, new, success, failure) ==
    /\ LET r == compare_exchange(cell, current, new, success, failure)
       IN  Record("compare_exchange", current, new, success, failure, r, r.ret.tag = "Ok")
    /\ UNCHANGED <<prog, ty, other, fu>>

CompareExchangeWeak(current, new, success, failure) ==
    /\ \E spurious \in BOOLEAN :
         LET r == compare_exchange_weak(cell, current, new, success, failure, spurious)
         IN  Record("compare_exchange_weak", current, new, success, failure, r,
                    r.ret.tag = "Ok")
    /\ UNCHANGED <<prog, ty, other, fu>>

Next ==
    \/ \E o \in Ordering : Load(o)
    \/ \E v \in Vals(ty.size), o \in Ordering : Store(v, o)
    \/ \E v \in Vals(ty.size), o \in Ordering : Swap(v, o)
    \/ \E c, n \in Vals(ty.size), s, f \in Ordering : CompareExchange(c, n, s, f)
    \/ \E c, n \in Vals(ty.size), s, f \in Ordering : CompareExchangeWeak(c, n, s, f)

Spec == Init /\ [][Next]_vars

----------------------------------------------------------------------------
(* fetch_update, lib.rs:184-193, step by step. The frame fu[t] holds the    *)
(* arguments and locals of thread t's call; its fields at, put, changed and *)
(* env only observe the call and are never read by it.                      *)

\* Option<T>
None == [tag |-> "None", val |-> NoVal]
Some(v) == [tag |-> "Some", val |-> v]

\* the complement of a pattern
not(x) == [i \in 1..Len(x) |-> 255 - x[i]]

\* The callbacks passed as cb, applied to x: the set of outcomes the build
\* can produce, each Some(value), None or a panic inside the closure.
\*   none  |_| None
\*   flip  |x| Some(!x)
\*   init  |x| if x == 0 { Some(1) } else { None }
\*   inc   |x| Some(x + 1) on an integer: at the maximum of the type the
\*         addition overflows, which panics with overflow checks on and
\*         wraps with them off
Cb(kind, x) ==
    CASE kind = "none" -> {None}
      [] kind = "flip" -> {Some(not(x))}
      [] kind = "init" -> IF x = Small(0, Len(x)) THEN {Some(Small(1, Len(x)))} ELSE {None}
      [] kind = "inc" -> {Some(wrapping_add(x, Small(1, Len(x))))}
                         \cup (IF x = MaxInt(ty) THEN {Panicked} ELSE {})

\* a frame that returned res (Panicked: the call unwound)
Return(f, res) == [f EXCEPT !.pc = "returned", !.res = res]

\* the frame after the call's first step: let mut prev = self.load(fetch_order)
fetch_update_load(f, set_order, fetch_order, cb, r) ==
    LET g == [Idle EXCEPT !.cb = cb, !.set_order = set_order,
                          !.fetch_order = fetch_order, !.n = f.n]
    IN  IF r.panic THEN Return(g, Panicked)
        ELSE [g EXCEPT !.pc = "cb", !.prev = r.ret.val]

\* fetch_update_cb returning Ok(prev) when cb produced None
fetch_update_cb_ok(f, c) ==
    CASE c.tag = "Some" -> [f EXCEPT !.pc = "cas", !.next = c.val]
      [] c.tag = "None" -> Return(f, Ok(f.prev))
      [] OTHER -> Return(f, Panicked)

\* the frame after while let Some(next) = cb(prev), cb having produced c
fetch_update_cb(f, c) ==
    CASE c.tag = "Some" -> [f EXCEPT !.pc = "cas", !.next = c.val]
      [] c.tag = "None" -> Return(f, Err(f.prev))
      [] OTHER -> Return(f, Panicked)

\* fetch_update_match keeping the value it loaded after a failed exchange
fetch_update_match_stale(f, r) ==
    CASE r.ret.tag = "Ok" -> Return(f, r.ret)
      [] r.ret.tag = "Err" -> [f EXCEPT !.pc = "cb", !.next = NoVal]
      [] OTHER -> Return(f, Panicked)

\* fetch_update_match repeating the exchange without calling cb again
fetch_update_match_again(f, r) ==
    CASE r.ret.tag = "Ok" -> Return(f, r.ret)
      [] r.ret.tag = "Err" -> [f EXCEPT !.pc = "cas", !.prev = r.ret.val]
      [] OTHER -> Return(f, Panicked)

\* fetch_update_match returning the value it stored
fetch_update_match_new(f, r) ==
    CASE r.ret.tag = "Ok" -> Return(f, Ok(f.next))
      [] r.ret.tag = "Err" -> [f EXCEPT !.pc = "cb", !.prev = r.ret.val, !.next = NoVal]
      [] OTHER -> Return(f, Panicked)

\* the frame after matching the outcome r of compare_exchange_weak
fetch_update_match(f, r) ==
    CASE r.ret.tag = "Ok" -> Return(f, r.ret)
      [] r.ret.tag = "Err" -> [f EXCEPT !.pc = "cb", !.prev = r.ret.val, !.next = NoVal]
      [] OTHER -> Return(f, Panicked)

FetchUpdateCall(t, set_order, fetch_order, cb) ==
    /\ fu[t].pc \in {"idle", "returned"}
    /\ LET r == load(cell, fetch_order)
       IN  /\ cell' = r.mem
           /\ fu' = [fu EXCEPT ![t] = fetch_update_load(@, set_order, fetch_order, cb, r)]
    /\ UNCHANGED <<prog, ty, other, last, wr>>

FetchUpdateCb(t) ==
    /\ fu[t].pc = "cb"
    /\ \E c \in Cb(fu[t].cb, fu[t].prev) :
          fu' = [fu EXCEPT ![t] = fetch_update_cb(@, c)]
    /\ UNCHANGED <<prog, ty, cell, other, last, wr>>

FetchUpdateCas(t) ==
    /\ fu[t].pc = "cas"
    /\ \E spurious \in BOOLEAN :
         LET f == fu[t]
             r == compare_exchange_weak(cell, f.prev, f.next, f.set_order, f.fetch_order,
                                        spurious)
             seen == [f EXCEPT !.at = cell, !.put = r.mem,
                               !.changed = @ + (IF r.mem = cell THEN 0 ELSE 1)]
         IN  /\ cell' = r.mem
             /\ fu' = [fu EXCEPT ![t] = fetch_update_match(seen, r)]
    /\ UNCHANGED <<prog, ty, other, last, wr>>

\* a store by a thread other than the ones calling fetch_update; env marks
\* the calls whose load it follows
Interfere(val) ==
    /\ cell' = store(cell, val, "SeqCst").mem
    /\ fu' = [t \in Threads |->
                IF fu[t].pc # "idle" THEN [fu[t] EXCEPT !.env = TRUE] ELSE fu[t]]
    /\ UNCHANGED <<prog, ty, other, last, wr>>

\* the threads that call fetch_update while the others store
Updaters == {t \in Threads : t = 1}

\* the callbacks of SpecFU: their results stay within four patterns
Callbacks == {"none", "flip", "init"}

NextFU ==
    \/ \E t \in Updaters, s, f \in Ordering, cb \in Callbacks : FetchUpdateCall(t, s, f, cb)
    \/ \E t \in Updaters : FetchUpdateCb(t)
    \/ \E t \in Updaters : FetchUpdateCas(t)
    \/ \E v \in Vals(ty.size) : Interfere(v)

SpecFU == Init /\ [][NextFU]_vars

----------------------------------------------------------------------------
(* N threads, each calling fetch_add(1, SeqCst) k times on a cell that      *)
(* starts at 0                                                              *)

FetchAdd(t, val, order) ==
    /\ fu[t].pc = "idle"
    /\ fu[t].n < MaxAdds
    /\ LET r == fetch_add(cell, val, order)
       IN  /\ cell' = r.mem
           /\ fu' = [fu EXCEPT ![t] = [@ EXCEPT !.n = @ + 1, !.res = r.ret]]
    /\ UNCHANGED <<prog, ty, other, last, wr>>

InitAdd ==
    /\ \E T \in IntTypes : New(T, Small(0, T.size))
    /\ other = Second(NoVal)

NextAdd == \E t \in Threads : FetchAdd(t, Small(1, ty.size), "SeqCst")

SpecAdd == InitAdd /\ [][NextAdd]_vars

----------------------------------------------------------------------------
(* One thread making the same number of calls on two cells that start from  *)
(* the same value: fetch_update(_, _, |x| Some(x + 1)) on cell, logged in   *)
(* other.logA, and fetch_add(1, _) on other.mem, logged in other.logB       *)

\* the thread takes the result of its fetch_update call
SeqCollect(t) ==
    /\ fu[t].pc = "returned"
    /\ other' = [other EXCEPT !.logA = Append(@, fu[t].res)]
    /\ fu' = [fu EXCEPT ![t] = Idle]
    /\ UNCHANGED <<prog, ty, cell, last, wr>>

SeqFetchUpdate(t, set_order, fetch_order) ==
    /\ fu[t].pc = "idle"
    /\ Len(other.logA) < MaxCalls
    /\ FetchUpdateCall(t, set_order, fetch_order, "inc")

SeqFetchAdd(t, val, order) ==
    /\ fu[t].pc = "idle"
    /\ Len(other.logB) < MaxCalls
    /\ LET r == fetch_add(other.mem, val, order)
       IN  other' = [other EXCEPT !.mem = r.mem, !.logB = Append(@, r.ret)]
    /\ UNCHANGED <<prog, ty, cell, last, wr, fu>>

\* the initial values of the two cells: the samples, the maximum of the type
\* and the maximum less one
InitSeq ==
    \E T \in IntTypes :
       \E value \in Vals(T.size) \cup {MaxInt(T), [MaxInt(T) EXCEPT ![1] = 254]} :
          New(T, value) /\ other = Second(value)

NextSeq ==
    \E t \in Updaters :
       \/ \E s \in Ordering, f \in {o \in Ordering : LoadOrderOk(o)} : SeqFetchUpdate(t, s, f)
       \/ FetchUpdateCb(t)
       \/ FetchUpdateCas(t)
       \/ SeqCollect(t)
       \/ \E o \in Ordering : SeqFetchAdd(t, Small(1, ty.size), o)

SpecSeq == InitSeq /\ [][NextSeq]_vars

----------------------------------------------------------------------------
(* Properties of the primitive operations, under Spec *)

\* C1: a compare_exchange(expected, new) that is not rejected for its failure
\* ordering returns Ok(expected) and leaves the cell holding new exactly when
\* the cell held expected; otherwise it returns Err(actual), actual being the
\* value the cell held, and the cell is unchanged.
C1_CompareExchange ==
    (last.op = "compare_exchange" /\ FailureOrderOk(last.o2)) =>
       IF last.before = last.a
       THEN last.ret = Ok(last.a) /\ cell = last.b
       ELSE last.ret = Err(last.before) /\ cell = last.before

C1_Witness ==
    /\ last.op = "compare_exchange"
    /\ last.ret = Err(AllOnes(8))
    /\ last.a = Small(1, 8)
    /\ cell = AllOnes(8)

\* C2: at every width, when the last write to the cell is a store(v, o) that
\* was accepted (o in {Relaxed, Release, SeqCst}), a load(o') with o' in
\* {Relaxed, Acquire, SeqCst} returns v.
C2_StoreLoad ==
    (last.op = "load" /\ LoadOrderOk(last.o1) /\ wr.store) => last.ret = Val(wr.arg)

C2_Witness ==
    /\ last.op = "load" /\ last.o1 = "Acquire"
    /\ wr.store /\ wr.arg = AllOnes(8)
    /\ ty.size = 8
    /\ last.ret = Val(AllOnes(8))

\* C3: swap(v, o), for each of the five orderings and after any calls of
\* other threads, returns the value the cell held immediately before it and
\* leaves the cell holding v.
C3_Swap ==
    last.op = "swap" => last.ret = Val(last.before) /\ cell = last.a

C3_Witness ==
    /\ last.op = "swap" /\ last.o1 = "AcqRel"
    /\ wr.arg = last.a
    /\ last.before = Small(1, 4) /\ last.a = AllOnes(4)
    /\ last.ret = Val(Small(1, 4))

\* C8: compare_exchange_weak returns Ok only when the cell held expected and
\* new was written; every Err, a spurious one with actual = expected
\* included, leaves the stored value unchanged and returns it.
C8_CompareExchangeWeak ==
    last.op = "compare_exchange_weak" =>
       /\ last.ret.tag = "Ok" =>
             last.before = last.a /\ last.ret.val = last.a /\ cell = last.b
       /\ last.ret.tag = "Err" => cell = last.before /\ last.ret.val = last.before

C8_Witness ==
    /\ last.op = "compare_exchange_weak"
    /\ last.ret = Err(last.a)
    /\ last.b # last.a
    /\ cell = last.a

\* C9: load panics exactly for Release and AcqRel, store exactly for Acquire
\* and AcqRel; a call that panicked left the cell as it was.
C9_LoadStoreOrdering ==
    /\ last.op = "load" =>
          /\ last.ret.tag = "Panic" <=> last.o1 \in {"Release", "AcqRel"}
          /\ cell = last.before
    /\ last.op = "store" =>
          /\ last.ret.tag = "Panic" <=> last.o1 \in {"Acquire", "AcqRel"}
          /\ last.ret.tag = "Panic" => cell = last.before

C9_Witness ==
    /\ last.op = "load" /\ last.o1 = "Release"
    /\ last.ret.tag = "Panic"
    /\ cell = last.before

\* C10: compare_exchange and compare_exchange_weak with failure ordering
\* Release or AcqRel panic and write nothing, whatever the success ordering
\* and whether or not the cell holds expected.
C10_FailureOrdering ==
    (/\ last.op \in {"compare_exchange", "compare_exchange_weak"}
     /\ last.o2 \in {"Release", "AcqRel"}) =>
       last.ret.tag = "Panic" /\ cell = last.before

C10_Witness ==
    /\ last.op = "compare_exchange_weak"
    /\ last.o1 = "SeqCst" /\ last.o2 = "AcqRel"
    /\ last.before = last.a /\ last.b # last.a
    /\ last.ret.tag = "Panic"
    /\ cell = last.before

----------------------------------------------------------------------------
(* Properties of fetch_update under concurrent stores, under SpecFU *)

\* C5: a fetch_update call goes on to a compare-exchange only with a value
\* cb produced for prev; a call that returned Err(v) changed nothing, v is
\* the value cb was last given (the one the last failed compare-exchange
\* observed, or the loaded one) and cb produces None for it; with a callback
\* that always returns None the call returns Err of the loaded value, which
\* is still the value of the cell when no other thread stored meanwhile.
C5_NoneStops ==
    \A t \in Threads :
       LET f == fu[t]
       IN  /\ f.pc = "cas" => Some(f.next) \in Cb(f.cb, f.prev)
           /\ (f.pc = "returned" /\ f.res.tag = "Err") =>
                 /\ f.res.val = f.prev
                 /\ None \in Cb(f.cb, f.res.val)
                 /\ f.changed = 0
                 /\ f.at # NoVal => f.res.val = f.at /\ f.put = f.at
                 /\ (f.at = NoVal /\ ~f.env) => cell = f.res.val
           /\ (f.pc = "returned" /\ f.cb = "none" /\ LoadOrderOk(f.fetch_order)) =>
                 f.res.tag = "Err" /\ f.at = NoVal

C5_Witness ==
    \E t \in Threads :
       /\ fu[t].pc = "returned" /\ fu[t].cb = "init"
       /\ fu[t].res = Err(AllOnes(4))
       /\ fu[t].at = AllOnes(4)
       /\ fu[t].env

\* C7: when fetch_update returns Ok(p), the successful compare-exchange found
\* the cell holding p and left it holding the value cb produces for p; the
\* call changed the cell that once, and a call that has not returned Ok has
\* changed nothing.
C7_AppliedOnce ==
    \A t \in Threads :
       LET f == fu[t]
       IN  IF f.pc = "returned" /\ f.res.tag = "Ok"
           THEN /\ f.res.val = f.at
                /\ Some(f.put) \in Cb(f.cb, f.res.val)
                /\ f.changed = 1
           ELSE f.changed = 0

C7_Witness ==
    \E t \in Threads :
       /\ fu[t].pc = "returned" /\ fu[t].cb = "flip" /\ fu[t].env
       /\ fu[t].res = Ok(Small(1, 2))
       /\ fu[t].put = not(Small(1, 2))
       /\ cell = fu[t].put

----------------------------------------------------------------------------
(* No lost update, under SpecAdd *)

\* C4: with N threads each calling fetch_add(1, SeqCst) k times on a cell
\* initialised to 0, in every interleaving the cell counts the calls made so
\* far, and once all have returned a load gives N * k.
C4_NoLostUpdate ==
    LET RECURSIVE Completed(_)
        Completed(t) == IF t = 0 THEN 0 ELSE fu[t].n + Completed(t - 1)
    IN  /\ cell = Small(Completed(NThreads), ty.size)
        /\ (\A t \in Threads : fu[t].n = MaxAdds) =>
              load(cell, "SeqCst").ret = Val(Small(NThreads * MaxAdds, ty.size))

C4_Witness ==
    /\ \A t \in Threads : fu[t].n = MaxAdds
    /\ ty.size = 1
    /\ fu[1].res = Val(Small(NThreads * MaxAdds - 2, 1))
    /\ fu[2].res = Val(Small(NThreads * MaxAdds - 1, 1))
    /\ load(cell, "SeqCst").ret = Val(Small(NThreads * MaxAdds, 1))

----------------------------------------------------------------------------
(* fetch_update(|x| Some(x + 1)) against fetch_add(1), under SpecSeq *)

\* C6 as stated: the i-th fetch_update(_, _, |x| Some(x + 1)) returns Ok of
\* what the i-th fetch_add(1, _) returns, and after the same number of calls
\* the two cells hold the same value.
C6_Original ==
    LET la == Len(other.logA)
        lb == Len(other.logB)
    IN  /\ \A i \in 1..(IF la < lb THEN la ELSE lb) : other.logA[i] = Ok(other.logB[i].val)
        /\ (la = lb /\ fu[1].pc = "idle") => cell = other.mem

\* C6 amended: the same, up to and excluding the first call that finds the
\* maximum value of the type in its cell, where x + 1 overflows.
C6_Equivalent ==
    LET la == Len(other.logA)
        lb == Len(other.logB)
        NoOverflow(i) == \A j \in 1..i : other.logB[j].val # MaxInt(ty)
    IN  /\ \A i \in 1..(IF la < lb THEN la ELSE lb) :
              NoOverflow(i) => other.logA[i] = Ok(other.logB[i].val)
        /\ (la = lb /\ fu[1].pc = "idle" /\ NoOverflow(lb)) => cell = other.mem

C6_Witness ==
    /\ Len(other.logA) = MaxCalls /\ Len(other.logB) = MaxCalls
    /\ fu[1].pc = "idle"
    /\ \A j \in 1..MaxCalls : other.logB[j].val # MaxInt(ty)
    /\ ty.size = 2 /\ ty.signed
    /\ other.logA[MaxCalls] = Ok(Small(MaxCalls, 2))
    /\ cell = Small(MaxCalls + 1, 2)


----------------------------------------------------------------------------
(* Building and running a program that holds an Atomic<T>, for any layout   *)
(* of T. An associated constant of lib.rs:61-81 is evaluated when the build *)
(* instantiates a function that mentions it: TYPE_SIZE by new, LOAD by      *)
(* load, STORE by store and so on. A panic in that evaluation fails the     *)
(* build. ops.rs instantiates the modules of all four widths without a cfg  *)
(* (ops.rs:124-138), so the crate builds only for targets that have atomics *)
(* of all four widths, where every cfg of the match arms holds.             *)

\* the layouts of T: size and alignment in bytes, the size a multiple of
\* the alignment
Layouts ==
    {L \in [size : {0, 1, 2, 3, 4, 8, 16}, align : {1, 2, 4, 8}] : L.size % L.align = 0}

\* TYPE_SIZE with the assertion left out
TYPE_SIZE_unchecked(T) == Val(T.size)

\* const TYPE_SIZE: the size of T, or a panic while the constant is evaluated
TYPE_SIZE(T) == IF T.size > 0 THEN Val(T.size) ELSE Panicked

\* const LOAD, STORE, SWAP, CMP_EX, CMP_EX_WEAK of Atomic<T>: the function
\* pointer <<module, function>> the method calls through, or a panic while
\* the constant is evaluated
AssocConst(method, T) ==
    LET size == TYPE_SIZE(T)
        m == match_size_arm(size.val, T.align)
    IN  IF size.tag = "Panic" \/ m = "unimplemented" THEN Panicked
        ELSE Val(<<m, "atomic_" \o method>>)

\* Atomic::new(value) in a build with or without debug assertions: the cell,
\* or a panic of the assertion
new(T, value, debug) ==
    IF debug /\ ~(TYPE_SIZE(T).val <= 8) THEN [panic |-> TRUE, mem |-> NoVal]
    ELSE [panic |-> FALSE, mem |-> value]

\* the program text gains a call of method on the cell
Use(method) ==
    /\ prog.phase = "source"
    /\ method \notin prog.uses
    /\ prog' = [prog EXCEPT !.uses = @ \cup {method}]
    /\ UNCHANGED <<ty, cell, last, wr, fu, other>>

\* the build instantiates new and the methods the program calls, and
\* evaluates the constants they mention
Compile ==
    /\ prog.phase = "source"
    /\ LET consts == {TYPE_SIZE(ty).tag} \cup {AssocConst(m, ty).tag : m \in prog.uses}
       IN  prog' = [prog EXCEPT !.phase = IF "Panic" \in consts THEN "rejected" ELSE "built"]
    /\ UNCHANGED <<ty, cell, last, wr, fu, other>>

\* the built program creates its cell
RunNew(value) ==
    /\ prog.phase = "built"
    /\ LET r == new(ty, value, prog.debug)
       IN  /\ prog' = [prog EXCEPT !.phase = IF r.panic THEN "panicked" ELSE "live"]
           /\ cell' = r.mem
    /\ UNCHANGED <<ty, last, wr, fu, other>>

\* the running program calls method, which goes through its constant
RunCall(method) ==
    /\ prog.phase = "live"
    /\ method \in prog.uses
    /\ prog' = [prog EXCEPT !.ran = AssocConst(method, ty).val]
    /\ UNCHANGED <<ty, cell, last, wr, fu, other>>

\* a program text that only names Atomic<T> and calls new, for any layout
\* of T and either build profile
InitBuild ==
    /\ ty \in Layouts
    /\ cell = NoVal
    /\ last = NoCall
    /\ wr = [store |-> FALSE, arg |-> NoVal]
    /\ fu = [t \in Threads |-> Idle]
    /\ other = Second(NoVal)
    /\ \E debug \in BOOLEAN :
         prog = [phase |-> "source", uses |-> {}, debug |-> debug, ran |-> <<>>]

NextBuild ==
    \/ \E method \in Methods : Use(method)
    \/ Compile
    \/ \E value \in Vals(ty.size) : RunNew(value)
    \/ \E method \in Methods : RunCall(method)

SpecBuild == InitBuild /\ [][NextBuild]_vars

----------------------------------------------------------------------------
(* Properties of the build and of the dispatch, under SpecBuild *)

\* C11: for every layout of T that matches no supported width (size not in
\* {1,2,4,8}, or alignment below the native alignment of the width), a
\* program that calls new is rejected by the build: it is never built, no
\* cell ever exists and new never panics at run time.
C11_RejectedAtBuild ==
    (match_size_arm(ty.size, ty.align) = "unimplemented")
        => prog.phase \in {"source", "rejected"}

\* C12: a program that creates an Atomic<T> of a zero-sized T is rejected by
\* the build, whatever else it calls: it is never built, so no cell exists
\* and no operation runs.
C12_ZeroSized ==
    (ty.size = 0) => /\ prog.phase \in {"source", "rejected"}
                     /\ prog.ran = <<>>

C12_Witness ==
    /\ ty.size = 0
    /\ prog.uses = {}
    /\ prog.phase = "rejected"

\* C13: for a type whose size is a supported width and whose alignment is
\* below the native alignment of that width, each of the five constants
\* panics when evaluated, a program that calls any of the five methods is
\* rejected by the build, and no call is dispatched to any module.
C13_Underaligned ==
    (ty.size \in {1, 2, 4, 8} /\ ty.align < native_align(ty.size))
        => /\ \A method \in Methods : AssocConst(method, ty).tag = "Panic"
           /\ prog.uses # {} => prog.phase \in {"source", "rejected"}
           /\ prog.ran = <<>>

C13_Witness ==
    /\ ty \in {[size |-> 2, align |-> 1], [size |-> 4, align |-> 2]}
    /\ prog.uses = Methods
    /\ prog.phase = "rejected"

\* C19: for a type of size N in {1,2,4,8} whose alignment is at least the
\* native alignment of width N, each of the five constants holds the
\* function of the module of width N (1 -> u8, 2 -> u16, 4 -> u32, 8 -> u64),
\* and every dispatched call runs in that module.
C19_Dispatch ==
    LET W == CASE ty.size = 1 -> "u8" [] ty.size = 2 -> "u16"
               [] ty.size = 4 -> "u32" [] ty.size = 8 -> "u64" [] OTHER -> "-"
        fn == [method \in Methods |->
                 CASE method = "load" -> "atomic_load"
                   [] method = "store" -> "atomic_store"
                   [] method = "swap" -> "atomic_swap"
                   [] method = "compare_exchange" -> "atomic_compare_exchange"
                   [] method = "compare_exchange_weak" -> "atomic_compare_exchange_weak"]
    IN  (ty.size \in {1, 2, 4, 8} /\ ty.align >= native_align(ty.size))
            => /\ \A method \in Methods : AssocConst(method, ty) = Val(<<W, fn[method]>>)
               /\ prog.ran # <<>> => prog.ran[1] = W

C19_Witness ==
    /\ ty = [size |-> 8, align |-> 8]
    /\ prog.phase = "live"
    /\ prog.ran = <<"u64", "atomic_compare_exchange_weak">>


----------------------------------------------------------------------------
(* The specialised fetch_* methods of the integer-like types, lib.rs:196-   *)
(* 305. Each casts the cell to the native atomic of $ty and calls the       *)
(* native operation of the same name, one indivisible step that accepts     *)
(* every ordering.                                                          *)

\* the types impl_common_spec is instantiated for: the integers and bool
FetchTypes ==
    {[size |-> T.size, align |-> T.align, signed |-> T.signed, bool |-> FALSE] : T \in IntTypes}
        \cup {[size |-> 1, align |-> 1, signed |-> FALSE, bool |-> TRUE]}

\* $ty::min_value() of an integer type
MinInt(T) == [i \in 1..T.size |-> IF T.signed /\ i = T.size THEN 128 ELSE 0]

\* the values of $ty used as contents and operands: false and true for
\* bool; for an integer 0, 1, all ones, the extremes and a mixed pattern
FetchVals(T) ==
    IF T.bool THEN {Small(0, 1), Small(1, 1)}
    ELSE Vals(T.size) \cup {MaxInt(T), MinInt(T),
                            [i \in 1..T.size |-> IF i % 2 = 1 THEN 90 ELSE 195]}

RECURSIVE BitOp(_, _, _, _)
\* the low k bits of x op y, for op one of and, or, xor
BitOp(op, x, y, k) ==
    IF k = 0 THEN 0
    ELSE LET a == x % 2
             b == y % 2
             c == CASE op = "and" -> a * b
                    [] op = "or" -> IF a + b > 0 THEN 1 ELSE 0
                    [] op = "xor" -> (a + b) % 2
         IN  c + 2 * BitOp(op, x \div 2, y \div 2, k - 1)

\* x op y on two patterns of the same length
Bitwise(op, x, y) == [i \in 1..Len(x) |-> BitOp(op, x[i], y[i], 8)]

RECURSIVE Borrow(_, _, _)
\* the borrow out of byte i - 1 of a - b
Borrow(a, b, i) ==
    IF i = 1 THEN 0
    ELSE IF a[i - 1] - b[i - 1] - Borrow(a, b, i - 1) < 0 THEN 1 ELSE 0

\* a - b modulo 2^(8 * Len(a))
wrapping_sub(a, b) == [i \in 1..Len(a) |-> (256 + a[i] - b[i] - Borrow(a, b, i)) % 256]

RECURSIVE Below(_, _, _)
\* a < b as unsigned integers made of bytes 1..i
Below(a, b, i) ==
    IF i = 0 THEN FALSE
    ELSE IF a[i] # b[i] THEN a[i] < b[i] ELSE Below(a, b, i - 1)

\* a < b in the order of the native integer: two's complement when signed
Less(signed, a, b) ==
    LET bias(x) == IF signed THEN [x EXCEPT ![Len(x)] = (@ + 128) % 256] ELSE x
    IN  Below(bias(a), bias(b), Len(a))

\* $atomic::fetch_and(val, order)
native_fetch_and(mem, val, order) ==
    [panic |-> FALSE, mem |-> Bitwise("and", mem, val), ret |-> Val(mem)]

\* $atomic::fetch_nand(val, order); on AtomicBool the negation is logical
native_fetch_nand(bool, mem, val, order) ==
    [panic |-> FALSE,
     mem |-> IF bool THEN <<1 - BitOp("and", mem[1], val[1], 1)>>
             ELSE not(Bitwise("and", mem, val)),
     ret |-> Val(mem)]

\* $atomic::fetch_or(val, order)
native_fetch_or(mem, val, order) ==
    [panic |-> FALSE, mem |-> Bitwise("or", mem, val), ret |-> Val(mem)]

\* $atomic::fetch_xor(val, order)
native_fetch_xor(mem, val, order) ==
    [panic |-> FALSE, mem |-> Bitwise("xor", mem, val), ret |-> Val(mem)]

\* $atomic::fetch_min(val, order)
native_fetch_min(signed, mem, val, order) ==
    [panic |-> FALSE, mem |-> IF Less(signed, val, mem) THEN val ELSE mem, ret |-> Val(mem)]

\* $atomic::fetch_max(val, order)
native_fetch_max(signed, mem, val, order) ==
    [panic |-> FALSE, mem |-> IF Less(signed, mem, val) THEN val ELSE mem, ret |-> Val(mem)]

\* $atomic::fetch_sub(val, order)
native_fetch_sub(mem, val, order) ==
    [panic |-> FALSE, mem |-> wrapping_sub(mem, val), ret |-> Val(mem)]

\* Atomic<$ty>::fetch_and
fetch_and(self, val, order) == native_fetch_and(self, val, order)

\* Atomic<$ty>::fetch_nand calling the native fetch_and
fetch_nand_and(self, val, order) == native_fetch_and(self, val, order)

\* Atomic<$ty>::fetch_nand
fetch_nand(self, val, order) == native_fetch_nand(ty.bool, self, val, order)

\* Atomic<$ty>::fetch_or
fetch_or(self, val, order) == native_fetch_or(self, val, order)

\* Atomic<$ty>::fetch_xor
fetch_xor(self, val, order) == native_fetch_xor(self, val, order)

\* Atomic<$ty>::fetch_min on the unsigned native atomic of the width
fetch_min_unsigned(self, val, order) == native_fetch_min(FALSE, self, val, order)

\* Atomic<$ty>::fetch_min
fetch_min(self, val, order) == native_fetch_min(ty.signed, self, val, order)

\* Atomic<$ty>::fetch_max
fetch_max(self, val, order) == native_fetch_max(ty.signed, self, val, order)

\* Atomic<$ty>::fetch_sub stopping at zero
fetch_sub_saturating(self, val, order) ==
    LET r == native_fetch_sub(self, val, order)
    IN  [r EXCEPT !.mem = IF Below(self, val, Len(self)) THEN Small(0, Len(self)) ELSE @]

\* Atomic<$ty>::fetch_sub
fetch_sub(self, val, order) == native_fetch_sub(self, val, order)

\* the methods of impl_common_spec and of impl_math_spec
CommonMethods == {"fetch_and", "fetch_nand", "fetch_or", "fetch_xor"}
MathMethods == {"fetch_min", "fetch_max", "fetch_add", "fetch_sub"}

\* thread t calls cell.method(val, order); the record of the call leaves
\* out the ordering, which no fetch_* method reads
Fetch(t, method, val, order) ==
    /\ fu[t].n < MaxFetch
    /\ method \in CommonMethods \cup (IF ty.bool THEN {} ELSE MathMethods)
    /\ LET r == CASE method = "fetch_and" -> fetch_and(cell, val, order)
                  [] method = "fetch_nand" -> fetch_nand(cell, val, order)
                  [] method = "fetch_or" -> fetch_or(cell, val, order)
                  [] method = "fetch_xor" -> fetch_xor(cell, val, order)
                  [] method = "fetch_min" -> fetch_min(cell, val, order)
                  [] method = "fetch_max" -> fetch_max(cell, val, order)
                  [] method = "fetch_add" -> fetch_add(cell, val, order)
                  [] method = "fetch_sub" -> fetch_sub(cell, val, order)
       IN  Record(method, val, NoVal, "-", "-", r, FALSE)
    /\ fu' = [fu EXCEPT ![t].n = @ + 1]
    /\ UNCHANGED <<prog, ty, other>>

InitFetch ==
    /\ \E T \in FetchTypes : \E value \in FetchVals(T) : New(T, value)
    /\ other = Second(NoVal)

NextFetch ==
    \E t \in Updaters, method \in CommonMethods \cup MathMethods,
       val \in FetchVals(ty), order \in Ordering :
          Fetch(t, method, val, order)

SpecFetch == InitFetch /\ [][NextFetch]_vars


----------------------------------------------------------------------------
(* Properties of the fetch_* methods, under SpecFetch. p is the value the   *)
(* cell held before the latest call, v the operand of the call.             *)

\* C14: fetch_and, fetch_or, fetch_xor and fetch_nand return the previous
\* value p and leave, in every bit of the cell, the and, or, xor and negated
\* and of that bit of p and of the operand (for bool, whose only bit is the
\* lowest, the negation is the logical one); a load then returns that value.
C14_Bitwise ==
    LET p == last.before
        v == last.a
        bits == IF ty.bool THEN {0} ELSE 0..7
        bit(x, i, k) == (x[i] \div (2 ^ k)) % 2
        want(a, b) == CASE last.op = "fetch_and" -> a * b
                        [] last.op = "fetch_or" -> IF a = 1 \/ b = 1 THEN 1 ELSE 0
                        [] last.op = "fetch_xor" -> IF a = b THEN 0 ELSE 1
                        [] last.op = "fetch_nand" -> 1 - a * b
    IN  last.op \in CommonMethods
            => /\ last.ret = Val(p)
               /\ \A i \in 1..ty.size :
                     /\ \A k \in bits : bit(cell, i, k) = want(bit(p, i, k), bit(v, i, k))
                     /\ ty.bool => cell[i] \in {0, 1}
               /\ load(cell, "SeqCst").ret = Val(cell)

C14_Witness ==
    /\ ty.size = 8
    /\ last.op = "fetch_nand"
    /\ last.before = [i \in 1..8 |-> IF i % 2 = 1 THEN 90 ELSE 195]
    /\ last.a = MaxInt(ty)
    /\ cell = [i \in 1..8 |-> IF i = 8 THEN 188 ELSE IF i % 2 = 1 THEN 165 ELSE 60]

\* C15: fetch_add and fetch_sub return the previous value p and never fail;
\* fetch_add leaves p + v and fetch_sub p - v modulo 2^w, stated byte by
\* byte with carries: fetch_add(1) on the maximum of the type leaves its
\* minimum, fetch_sub(1) on an unsigned 0 leaves the maximum.
C15_Wrapping ==
    LET p == last.before
        v == last.a
        n == ty.size
        sum(x, y, z) == \E c \in [1..(n + 1) -> {0, 1}] :
                           /\ c[1] = 0
                           /\ \A i \in 1..n : x[i] + y[i] + c[i] = z[i] + 256 * c[i + 1]
    IN  /\ last.op = "fetch_add"
            => /\ last.ret = Val(p)
               /\ sum(p, v, cell)
               /\ (p = MaxInt(ty) /\ v = Small(1, n)) => cell = MinInt(ty)
        /\ last.op = "fetch_sub"
            => /\ last.ret = Val(p)
               /\ sum(cell, v, p)
               /\ (~ty.signed /\ p = Small(0, n) /\ v = Small(1, n)) => cell = AllOnes(n)

C15_Witness ==
    /\ ty.size = 8 /\ ~ty.signed
    /\ last.op = "fetch_sub"
    /\ last.before = Small(0, 8)
    /\ last.a = Small(1, 8)
    /\ last.ret = Val(Small(0, 8))
    /\ cell = AllOnes(8)

\* C16: fetch_min and fetch_max return the previous value p and leave one of
\* p and v in the cell: one that neither is below (fetch_min) or above
\* (fetch_max) in the order of the type, where for a signed type a negative
\* value is below every non-negative one.
C16_MinMax ==
    LET p == last.before
        v == last.a
        n == ty.size
        neg(x) == ty.signed /\ x[n] >= 128
        ult(a, b) == \E i \in 1..n : a[i] < b[i] /\ \A j \in (i + 1)..n : a[j] = b[j]
        lt(a, b) == IF neg(a) # neg(b) THEN neg(a) ELSE ult(a, b)
    IN  /\ last.op = "fetch_min"
            => /\ last.ret = Val(p)
               /\ cell \in {p, v}
               /\ ~lt(p, cell) /\ ~lt(v, cell)
        /\ last.op = "fetch_max"
            => /\ last.ret = Val(p)
               /\ cell \in {p, v}
               /\ ~lt(cell, p) /\ ~lt(cell, v)

C16_Witness ==
    /\ ty.size = 2 /\ ty.signed
    /\ last.op = "fetch_min"
    /\ last.before = Small(1, 2)
    /\ last.a = AllOnes(2)
    /\ last.ret = Val(Small(1, 2))
    /\ cell = AllOnes(2)


----------------------------------------------------------------------------
(* Termination of fetch_update. The calling thread keeps being scheduled    *)
(* (weak fairness of its two steps), and a compare_exchange_weak that could *)
(* succeed again and again does not fail spuriously for ever (strong        *)
(* fairness of the successful exchange). Other threads store at will.       *)

SpecFUFair ==
    /\ SpecFU
    /\ \A t \in Updaters :
          /\ WF_vars(FetchUpdateCb(t))
          /\ WF_vars(FetchUpdateCas(t))
          /\ SF_vars(FetchUpdateCas(t) /\ fu'[t].pc = "returned")

\* C18: a fetch_update call goes back to its callback only from a
\* compare_exchange_weak that failed, leaving the cell as it was and taking
\* the observed value as prev; and if from some point on no other thread
\* stores to the cell, every call that is in its loop eventually returns.
C18_Returns ==
    /\ [][\A t \in Updaters :
             (fu[t].pc = "cas" /\ fu'[t].pc = "cb") => (cell' = cell /\ fu'[t].prev = cell)]_vars
    /\ (<>[][\A v \in Vals(ty.size) : ~Interfere(v)]_vars)
          => \A t \in Updaters : (fu[t].pc \in {"cb", "cas"}) ~> (fu[t].pc = "returned")

C18_Witness ==
    \E t \in Updaters :
       /\ fu[t].pc = "returned" /\ fu[t].cb = "init"
       /\ fu[t].res = Err(Small(1, 8))
       /\ fu[t].at = Small(1, 8)


----------------------------------------------------------------------------
(* One fetch_update call at a time, with the trace of its steps kept in     *)
(* other.logA: the load, each call of cb and each compare_exchange_weak.    *)
(* Other threads store and the exchange fails spuriously only while the     *)
(* call has failed fewer than MaxRetries exchanges.                         *)

\* the entry of a step: what it was given, its outcome, and whether the
\* cell changed
Event(step, arg, out, wrote) == [step |-> step, arg |-> arg, out |-> out, wrote |-> wrote]

\* number of failed exchanges in a trace
Failed(log) ==
    Cardinality({j \in 1..Len(log) : log[j].step = "cas" /\ log[j].out.tag = "Err"})

TraceCall(t, set_order, fetch_order, cb) ==
    /\ fu[t].pc \in {"idle", "returned"}
    /\ LET r == load(cell, fetch_order)
       IN  /\ cell' = r.mem
           /\ fu' = [fu EXCEPT ![t] = fetch_update_load(@, set_order, fetch_order, cb, r)]
           /\ other' = [other EXCEPT !.logA = <<Event("load", NoVal, r.ret, r.mem # cell)>>]
    /\ UNCHANGED <<prog, ty, last, wr>>

TraceCb(t) ==
    /\ fu[t].pc = "cb"
    /\ \E c \in Cb(fu[t].cb, fu[t].prev) :
          /\ fu' = [fu EXCEPT ![t] = fetch_update_cb(@, c)]
          /\ other' = [other EXCEPT !.logA = Append(@, Event("cb", fu[t].prev, c, FALSE))]
    /\ UNCHANGED <<prog, ty, cell, last, wr>>

TraceCas(t) ==
    /\ fu[t].pc = "cas"
    /\ \E spurious \in (IF Failed(other.logA) < MaxRetries THEN BOOLEAN ELSE {FALSE}) :
         LET f == fu[t]
             r == compare_exchange_weak(cell, f.prev, f.next, f.set_order, f.fetch_order,
                                        spurious)
             seen == [f EXCEPT !.at = cell, !.put = r.mem,
                               !.changed = @ + (IF r.mem = cell THEN 0 ELSE 1)]
         IN  /\ cell' = r.mem
             /\ fu' = [fu EXCEPT ![t] = fetch_update_match(seen, r)]
             /\ other' = [other EXCEPT !.logA =
                             Append(@, Event("cas", <<f.prev, f.next>>, r.ret, r.mem # cell))]
    /\ UNCHANGED <<prog, ty, last, wr>>

\* a store by another thread
TraceInterfere(val) ==
    /\ Failed(other.logA) < MaxRetries
    /\ cell' = store(cell, val, "SeqCst").mem
    /\ fu' = [t \in Threads |->
                IF fu[t].pc # "idle" THEN [fu[t] EXCEPT !.env = TRUE] ELSE fu[t]]
    /\ UNCHANGED <<prog, ty, other, last, wr>>

NextTrace ==
    \/ \E t \in Updaters, s, f \in Ordering, cb \in Callbacks : TraceCall(t, s, f, cb)
    \/ \E t \in Updaters : TraceCb(t)
    \/ \E t \in Updaters : TraceCas(t)
    \/ \E v \in Vals(ty.size) : TraceInterfere(v)

SpecTrace == Init /\ [][NextTrace]_vars

\* C17: in the trace of a fetch_update call, cb is called first on the
\* loaded value and then once on the value each failed compare_exchange_weak
\* observed, and on nothing else; each exchange follows a call of cb that
\* returned Some, with that value as the new one; nothing follows a None or
\* a successful exchange, and only a successful exchange changes the cell.
\* So a call that returned made 1 + (failed exchanges) calls of cb and one
\* exchange for each Some.
C17_OncePerValue ==
    \A t \in Updaters :
       LET L == other.logA
           n == Len(L)
           f == fu[t]
           cbs == {j \in 1..n : L[j].step = "cb"}
           tries == {j \in 1..n : L[j].step = "cas"}
       IN  /\ n > 0 => L[1].step = "load"
           /\ \A j \in 2..n :
                 /\ L[j].step # "load"
                 /\ L[j].step = "cb" =>
                       \/ L[j - 1].step = "load" /\ L[j - 1].out = Val(L[j].arg)
                       \/ L[j - 1].step = "cas" /\ L[j - 1].out = Err(L[j].arg)
                 /\ L[j].step = "cas" =>
                       /\ L[j - 1].step = "cb"
                       /\ L[j - 1].out = Some(L[j].arg[2])
                       /\ L[j - 1].arg = L[j].arg[1]
           /\ \A j \in 1..n : L[j].wrote => (L[j].step = "cas" /\ L[j].out.tag = "Ok")
           /\ f.pc = "cb" => L[n].out.tag \in {"Val", "Err"}
           /\ f.pc = "cas" => L[n].out.tag = "Some"
           /\ (f.pc = "returned" /\ f.res.tag # "Panic") =>
                 /\ L[n].out.tag \in {"None", "Ok"}
                 /\ Cardinality(cbs) = 1 + Failed(L)
                 /\ Cardinality(tries) = Cardinality({j \in cbs : L[j].out.tag = "Some"})

C17_Witness ==
    \E t \in Updaters :
       /\ fu[t].pc = "returned" /\ fu[t].cb = "flip" /\ fu[t].res.tag = "Ok"
       /\ Len(other.logA) = 3 + 2 * MaxRetries
       /\ Failed(other.logA) = MaxRetries
       /\ fu[t].env


----------------------------------------------------------------------------
(* N threads, each calling fetch_update(SeqCst, SeqCst, |x| Some(x + 1)) k  *)
(* times on a cell that starts at 0. The steps of the calls interleave in   *)
(* any way and any exchange may fail spuriously. other.logA[t] holds the    *)
(* results thread t has taken, in order.                                    *)

IncCall(t) ==
    /\ fu[t].pc = "idle"
    /\ Len(other.logA[t]) < MaxIncs
    /\ FetchUpdateCall(t, "SeqCst", "SeqCst", "inc")

\* thread t takes the result of its call
IncCollect(t) ==
    /\ fu[t].pc = "returned"
    /\ other' = [other EXCEPT !.logA[t] = Append(@, fu[t].res)]
    /\ fu' = [fu EXCEPT ![t] = Idle]
    /\ UNCHANGED <<prog, ty, cell, last, wr>>

\* a cell of type u64 holding 0, and no result taken yet
InitInc ==
    /\ \E T \in {U \in IntTypes : U.size = 8 /\ ~U.signed} : New(T, Small(0, T.size))
    /\ other = [Second(NoVal) EXCEPT !.logA = [t \in Threads |-> <<>>]]

NextInc ==
    \E t \in Threads :
       \/ IncCall(t)
       \/ FetchUpdateCb(t)
       \/ FetchUpdateCas(t)
       \/ IncCollect(t)

SpecInc == InitInc /\ [][NextInc]_vars

\* C20: with N threads each making k calls fetch_update(SeqCst, SeqCst,
\* |x| Some(x + 1)) on a cell that starts at 0, every call returns Ok, no
\* two calls return the same value, every returned value is among
\* 0..N*k-1, and once all N*k calls have returned the values are exactly
\* 0..N*k-1 and the cell holds N*k.
C20_NoLostIncrement ==
    LET n == ty.size
        total == NThreads * MaxIncs
        \* the calls that have returned: thread and index, 0 for a result not taken yet
        calls == {c \in Threads \X (0..MaxIncs) :
                     IF c[2] = 0 THEN fu[c[1]].pc = "returned"
                     ELSE c[2] <= Len(other.logA[c[1]])}
        res(c) == IF c[2] = 0 THEN fu[c[1]].res ELSE other.logA[c[1]][c[2]]
    IN  /\ \A c \in calls :
              /\ res(c).tag = "Ok"
              /\ \E i \in 0..(total - 1) : res(c).val = Small(i, n)
        /\ \A c, d \in calls : c # d => res(c).val # res(d).val
        /\ (\A t \in Threads : Len(other.logA[t]) = MaxIncs) =>
              /\ {res(c).val : c \in calls} = {Small(i, n) : i \in 0..(total - 1)}
              /\ cell = Small(total, n)

C20_Witness ==
    /\ ty.size = 8
    /\ other.logA[1] = <<Ok(Small(1, 8)), Ok(Small(2, 8))>>
    /\ other.logA[2] = <<Ok(Small(0, 8)), Ok(Small(3, 8))>>
    /\ cell = Small(NThreads * MaxIncs, 8)


----------------------------------------------------------------------------
(* N threads, each calling compare_exchange once with the value the cell    *)
(* was created with as the expected one and a new value that differs from   *)
(* it. Nothing else writes the cell, so wr.arg stays the initial value.     *)
(* fu[t] keeps the new value thread t passed and the result it got.         *)

RaceCompareExchange(t, desired, success, failure) ==
    /\ fu[t].pc = "idle"
    /\ desired # wr.arg
    /\ LET r == compare_exchange(cell, wr.arg, desired, success, failure)
       IN  /\ cell' = r.mem
           /\ fu' = [fu EXCEPT ![t] = [Return(@, r.ret) EXCEPT !.prev = wr.arg, !.next = desired]]
    /\ UNCHANGED <<prog, ty, other, last, wr>>

NextRace ==
    \E t \in Threads, desired \in Vals(ty.size), success, failure \in Ordering :
       RaceCompareExchange(t, desired, success, failure)

SpecRace == Init /\ [][NextRace]_vars

\* C21: among the calls compare_exchange(e, n_i, ..) that have returned a
\* result (a call with a failure ordering of Release or AcqRel panics and
\* returns none), exactly one returned Ok(e); each of the others returned
\* Err(n_j) with n_j the new value of that one, and the cell holds n_j.
\* While no call has returned a result the cell holds e.
C21_OneWinner ==
    LET e == wr.arg
        done == {t \in Threads : fu[t].pc = "returned" /\ fu[t].res.tag # "Panic"}
        winners == {t \in done : fu[t].res.tag = "Ok"}
    IN  IF done = {} THEN cell = e
        ELSE /\ Cardinality(winners) = 1
             /\ \A w \in winners :
                   /\ fu[w].res = Ok(e)
                   /\ cell = fu[w].next
                   /\ \A t \in done \ {w} : fu[t].res = Err(fu[w].next)

C21_Witness ==
    /\ ty.size = 8
    /\ wr.arg = Small(0, 8)
    /\ fu[1].pc = "returned" /\ fu[1].next = Small(1, 8) /\ fu[1].res = Err(AllOnes(8))
    /\ fu[2].pc = "returned" /\ fu[2].next = AllOnes(8) /\ fu[2].res = Ok(Small(0, 8))
    /\ cell = AllOnes(8)

----------------------------------------------------------------------------
(* fetch_update with a fetch ordering that load rejects, under SpecTrace *)

\* C22: a fetch_update call whose fetch ordering is Release or AcqRel has
\* panicked in its initial load: its trace is that load alone, which left
\* the cell as it was; cb was never called and no exchange attempted,
\* whatever cb would have returned.
C22_LoadRejects ==
    \A t \in Updaters :
       LET f == fu[t]
           L == other.logA
       IN  (f.pc # "idle" /\ f.fetch_order \in {"Release", "AcqRel"})
               => /\ f.pc = "returned" /\ f.res = Panicked
                  /\ Len(L) = 1
                  /\ L[1].step = "load" /\ L[1].out = Panicked /\ ~L[1].wrote
                  /\ f.at = NoVal /\ f.changed = 0

C22_Witness ==
    \E t \in Updaters :
       /\ fu[t].pc = "returned" /\ fu[t].cb = "none"
       /\ fu[t].fetch_order = "AcqRel"
       /\ fu[t].res = Panicked
       /\ Len(other.logA) = 1
       /\ cell = AllOnes(4)

====
